---- MODULE Spec2Model ----
(***************************************************************************)
(* Model of the SpaceSound sonification controller                         *)
(* (src/components/Modal.tsx, lines 46-552): the React state               *)
(* (isPlaying, mode, volume), the refs (audioCtxRef, masterGainRef,        *)
(* oscillatorsRef), the Web Audio nodes the component creates and the two  *)
(* setTimeout continuations (150 ms disconnect, 50 ms rebuild), the        *)
(* telemetry props and the node parameters computed from them.  The noise  *)
(* generators, the parameter mapping and getFlareClass                     *)
(* (src/unnamed/part_001) are also checked alone, each under a             *)
(* specification of its own.                                               *)
(*                                                                         *)
(* Time is counted in units of 50 ms.  A node handle is the pair           *)
(* <<build, kind>>: build numbers the graph builds (one master gain node   *)
(* per build), kind is the name of the local variable that holds the node  *)
(* in the source.                                                          *)
(***************************************************************************)
EXTENDS Integers, Sequences, FiniteSets, TLC

VARIABLES
    isPlaying,      \* useState(false)
    mode,           \* useState<SoundMode>('magnetosphere')
    volume,         \* useState(0.5), in hundredths
    audioCtxRef,    \* useRef<AudioContext | null>
    masterGainRef,  \* useRef<GainNode | null>: NoMaster or the build of the master
    oscillatorsRef, \* useRef<AudioScheduledSourceNode[]>: sequence of handles
    ctxState,       \* AudioContext.state
    ctxQueue,       \* resume()/suspend() requests not yet applied to ctxState
    created,        \* every node ever created
    started,        \* source nodes on which start() was called
    stopped,        \* source nodes on which stop() was called
    edges,          \* connections <<from, to>> of the audio graph
    masterGain,     \* build -> the gain AudioParam of the build's master node
    timers,         \* pending setTimeout callbacks, in registration order
    nextId,         \* number of the next build
    mounted,        \* the component is mounted
    hostHasAudio,   \* the host provides window.AudioContext
    errorEscaped,   \* an exception left a handler
    hist,           \* history: the operations issued so far
    lastBuild,      \* history: the last graph build
    lastDisc,       \* history: the last firing of the disconnect timer
    probe,          \* a function's input and what it computed from it
    telemetry,      \* the props windSpeed, windDensity, kpIndex, flareClass
    params          \* build -> the node parameters set from telemetry

vars == <<isPlaying, mode, volume, audioCtxRef, masterGainRef, oscillatorsRef,
          ctxState, ctxQueue, created, started, stopped, edges, masterGain,
          timers, nextId, mounted, hostHasAudio, errorEscaped, hist,
          lastBuild, lastDisc, probe, telemetry, params>>

(* ------------------------------ bounds -------------------------------- *)

\* number of operations: the user's (toggle, switchMode, setVolume, unmount)
\* and the changes of the props
MaxOps == 4

\* largest density given to createGranularNoise, in tenths
MaxDensity == 1200

\* the wind speeds given to playMagnetosphere run from -MaxNegWindSpeed to
\* MaxWindSpeed, in km/s
MaxWindSpeed == 1100
MaxNegWindSpeed == 100

\* the wind densities given to playMagnetosphere run from -MaxNegWindDensity
\* to MaxWindDensity, in p/cm3
MaxWindDensity == 20
MaxNegWindDensity == 3

\* the X-ray fluxes given to getFlareClass are m * 10^e nW/m2 with m in
\* 0..MaxMantissa and e in 0..MaxExponent
MaxMantissa == 99
MaxExponent == 4

\* longest flare class string given to playSun that is not an output of
\* getFlareClass
MaxClassLen == 2

\* number of samples of a pink-noise buffer that are computed
MaxSamples == 30

(* ----------------------------- constants ------------------------------ *)

Null == "null"
\* masterGainRef.current === null
NoMaster == 0
Ctx == "ctx"
Dest == <<0, "destination">>

Modes == {"magnetosphere", "sun"}
InitialMode == "magnetosphere"
InitialVolume == 50
\* the numbers handed to setVolume, in hundredths: values of the slider
\* (min 0, max 1) and numbers outside its range
Volumes == {-10, 30, 50, 150}

\* setTimeout delays in units of 50 ms
DisconnectDelay == 3
RebuildDelay == 1

Range(s) == {s[i] : i \in DOMAIN s}

(* --------------------------- graph builders --------------------------- *)

\* the sources pushed to oscillatorsRef, in push order
MagSources == <<"osc1", "osc2", "osc3", "lfo", "pinkNode", "grainNode">>
SunSources == <<"osc1", "osc2", "signalLfo", "noiseNode", "staticLfo">>

MagInner == {"lfoGain", "toneMix", "pinkFilter", "pinkGain", "grainFilter", "grainGain"}
SunInner == {"signalGain", "toneMix", "noiseFilter", "staticLfoGain", "noiseGain"}

\* connect() calls of playMagnetosphere with pinkGain connected to
\* ctx.destination instead of dest
MagEdgesPinkDirect(b) ==
    { <<<<b, "lfo">>, <<b, "lfoGain">>>>,
      <<<<b, "lfoGain">>, <<b, "toneMix.gain">>>>,
      <<<<b, "osc1">>, <<b, "toneMix">>>>,
      <<<<b, "osc2">>, <<b, "toneMix">>>>,
      <<<<b, "osc3">>, <<b, "toneMix">>>>,
      <<<<b, "toneMix">>, <<b, "master">>>>,
      <<<<b, "pinkNode">>, <<b, "pinkFilter">>>>,
      <<<<b, "pinkFilter">>, <<b, "pinkGain">>>>,
      <<<<b, "pinkGain">>, Dest>>,
      <<<<b, "grainNode">>, <<b, "grainFilter">>>>,
      <<<<b, "grainFilter">>, <<b, "grainGain">>>>,
      <<<<b, "grainGain">>, <<b, "master">>>> }

\* connect() calls of playMagnetosphere; "x.gain" is the AudioParam of x
MagEdges(b) ==
    { <<<<b, "lfo">>, <<b, "lfoGain">>>>,
      <<<<b, "lfoGain">>, <<b, "toneMix.gain">>>>,
      <<<<b, "osc1">>, <<b, "toneMix">>>>,
      <<<<b, "osc2">>, <<b, "toneMix">>>>,
      <<<<b, "osc3">>, <<b, "toneMix">>>>,
      <<<<b, "toneMix">>, <<b, "master">>>>,
      <<<<b, "pinkNode">>, <<b, "pinkFilter">>>>,
      <<<<b, "pinkFilter">>, <<b, "pinkGain">>>>,
      <<<<b, "pinkGain">>, <<b, "master">>>>,
      <<<<b, "grainNode">>, <<b, "grainFilter">>>>,
      <<<<b, "grainFilter">>, <<b, "grainGain">>>>,
      <<<<b, "grainGain">>, <<b, "master">>>> }

\* connect() calls of playSun
SunEdges(b) ==
    { <<<<b, "signalLfo">>, <<b, "signalGain">>>>,
      <<<<b, "signalGain">>, <<b, "toneMix.gain">>>>,
      <<<<b, "osc1">>, <<b, "toneMix">>>>,
      <<<<b, "osc2">>, <<b, "toneMix">>>>,
      <<<<b, "toneMix">>, <<b, "master">>>>,
      <<<<b, "staticLfo">>, <<b, "staticLfoGain">>>>,
      <<<<b, "staticLfoGain">>, <<b, "noiseGain.gain">>>>,
      <<<<b, "noiseNode">>, <<b, "noiseFilter">>>>,
      <<<<b, "noiseFilter">>, <<b, "noiseGain">>>>,
      <<<<b, "noiseGain">>, <<b, "master">>>> }

SourceKinds(m) == IF m = "magnetosphere" THEN MagSources ELSE SunSources
InnerKinds(m) == IF m = "magnetosphere" THEN MagInner ELSE SunInner
GraphEdges(b, m) == IF m = "magnetosphere" THEN MagEdges(b) ELSE SunEdges(b)

\* the handles a build pushes to oscillatorsRef
SourceHandles(b, m) == [i \in DOMAIN SourceKinds(m) |-> <<b, SourceKinds(m)[i]>>]

(* --------------------------- audio context ---------------------------- *)

\* the state the context has once every queued request has been applied
SettledState(s, q) ==
    IF q = <<>> THEN s
    ELSE IF q[Len(q)] = "resume" THEN "running" ELSE "suspended"

\* resume() / suspend(): queue a control message; a request for the state
\* the context is already settling to changes nothing
Request(s, q, op) ==
    LET goal == IF op = "resume" THEN "running" ELSE "suspended"
    IN IF SettledState(s, q) = goal THEN q ELSE Append(q, op)

(* -------------------------- noise generators -------------------------- *)

\* 0.0005 and 0.01 in units of 1e-7
GrainBase == 5000
GrainCap == 100000

\* Math.min(0.0005 + (density / 10000), 0.01) without the Math.min
GrainChanceNoCap(d) == GrainBase + 100 * d

\* grainChance of createGranularNoise, in units of 1e-7, for a density of
\* d tenths: Math.min(0.0005 + (density / 10000), 0.01)
GrainChance(d) ==
    LET sum == GrainBase + 100 * d
    IN IF sum < GrainCap THEN sum ELSE GrainCap

\* samples and filter states are counted in units of 1e-5
Unit == 100000

\* w * c for a white value of w hundredths and a coefficient of c7 * 1e-7
Scaled(w, c7) == (w * c7) \div 10000

\* one pass of the loop body of createPinkNoise on the filter state b for
\* a white value of w hundredths; out is output[i]
PinkStep(b, w) ==
    LET b0 == b.b0 - (b.b0 * 114) \div 100000 + Scaled(w, 555179)
        b1 == b.b1 - (b.b1 * 668) \div 100000 + Scaled(w, 750759)
        b2 == b.b2 - (b.b2 * 31) \div 1000 + Scaled(w, 1538520)
        b3 == b.b3 - (b.b3 * 1335) \div 10000 + Scaled(w, 3104856)
        b4 == (b.b4 * 55) \div 100 + Scaled(w, 5329522)
        b5 == 0 - (b.b5 * 7616) \div 10000 - Scaled(w, 168980)
        sum == b0 + b1 + b2 + b3 + b4 + b5 + b.b6 + Scaled(w, 5362000)
    IN [b0 |-> b0, b1 |-> b1, b2 |-> b2, b3 |-> b3, b4 |-> b4, b5 |-> b5,
        b6 |-> Scaled(w, 1159260), out |-> (sum * 11) \div 100]

\* b0 = b1 = ... = b6 = 0.0
PinkStart == [b0 |-> 0, b1 |-> 0, b2 |-> 0, b3 |-> 0, b4 |-> 0, b5 |-> 0,
              b6 |-> 0, out |-> 0]

\* output[i] of createGranularNoise for a density of d tenths, r1 the first
\* Math.random() in units of 1e-7 and r2 the second in hundredths
GrainSample(d, r1, r2) ==
    IF r1 < GrainChance(d) THEN (2 * r2 - 100) * 800 ELSE 0

(* ------------------------- parameter mapping -------------------------- *)

\* 150 + (windSpeed - 300) * 0.1, without the Math.min
BaseFreqNoCap(w) == 1500 + (w - 300)

\* baseFreq of playMagnetosphere, in tenths of a hertz, for a wind speed of
\* w km/s: 150 + (Math.min(windSpeed, 1000) - 300) * 0.1
BaseFreq(w) ==
    LET capped == IF w < 1000 THEN w ELSE 1000
    IN 1500 + (capped - 300)

\* windDensity / 15 * 0.15, without the Math.min
DensityVolNoCap(d) == d

\* densityVol of playMagnetosphere, in thousandths, for a wind density of d
\* tenths: Math.min(windDensity / 15, 1) * 0.15.  windDensity / 15 is
\* d / 150, and one 150th times 0.15 is one thousandth
DensityVol(d) ==
    LET ratio == IF d < 150 THEN d ELSE 150
    IN ratio

\* a string is the sequence of its characters; s.includes(c) for one
\* character c
Includes(s, c) == \E i \in DOMAIN s : s[i] = c

\* the cutoff of playSun with the three tests in the opposite order
CutoffReversed(flareClass) ==
    LET x == IF Includes(flareClass, "X") THEN 3000 ELSE 350
        m == IF Includes(flareClass, "M") THEN 1200 ELSE x
        c == IF Includes(flareClass, "C") THEN 500 ELSE m
    IN c

\* cutoff of playSun, in hertz: let cutoff = 350, then the three
\* if (flareClass.includes(..)) cutoff = .. in turn
Cutoff(flareClass) ==
    LET c == IF Includes(flareClass, "C") THEN 500 ELSE 350
        m == IF Includes(flareClass, "M") THEN 1200 ELSE c
        x == IF Includes(flareClass, "X") THEN 3000 ELSE m
    IN x

Digit(k) == <<"0", "1", "2", "3", "4", "5", "6", "7", "8", "9">>[k + 1]

RECURSIVE DecimalDigits(_)
\* the decimal digits of the natural number n
DecimalDigits(n) ==
    IF n < 10 THEN <<Digit(n)>>
    ELSE Append(DecimalDigits(n \div 10), Digit(n % 10))

\* (num / den).toFixed(1) for num >= 0: the nearest number of tenths, the
\* larger of two equally near, as integer part, point and one digit
ToFixed1(num, den) ==
    LET tenths == (20 * num + den) \div (2 * den)
    IN DecimalDigits(tenths \div 10) \o <<".", Digit(tenths % 10)>>

\* getFlareClass(flux) for a flux of f nW/m2 (1e-9 W/m2): 1e-7 is 100
GetFlareClass(f) ==
    IF f < 100 THEN <<"A">> \o ToFixed1(f, 10)
    ELSE IF f < 1000 THEN <<"B">> \o ToFixed1(f, 100)
    ELSE IF f < 10000 THEN <<"C">> \o ToFixed1(f, 1000)
    ELSE IF f < 100000 THEN <<"M">> \o ToFixed1(f, 10000)
    ELSE <<"X">> \o ToFixed1(f, 100000)

\* lfo.frequency.value of playMagnetosphere, in twentieths of a hertz, for
\* a kpIndex of kp tenths: Math.max(0.5, kpIndex / 2)
LfoRate(kp) == IF kp > 10 THEN kp ELSE 10

\* pinkFilter.frequency.value of playMagnetosphere, in tenths of a hertz:
\* 300 + (windSpeed * 0.5)
PinkFreq(w) == 3000 + 5 * w

\* the props before the feed has delivered data, and the props of a storm
\* (wind 750 km/s, density 12.0, Kp 6.0, a flux of 2e-4 W/m2)
DefaultTelemetry ==
    [windSpeed |-> 0, windDensity |-> 0, kpIndex |-> 0,
     flareClass |-> <<"A", "0", ".", "0">>]
StormTelemetry ==
    [windSpeed |-> 750, windDensity |-> 120, kpIndex |-> 60,
     flareClass |-> GetFlareClass(200000)]
Snapshots == {DefaultTelemetry, StormTelemetry}

\* the node parameters playMagnetosphere / playSun set from the props t
NodeParams(m, t) ==
    IF m = "magnetosphere"
    THEN [baseFreq |-> BaseFreq(t.windSpeed), lfoRate |-> LfoRate(t.kpIndex),
          pinkFreq |-> PinkFreq(t.windSpeed), densityVol |-> DensityVol(t.windDensity),
          grainChance |-> GrainChance(t.windDensity)]
    ELSE [cutoff |-> Cutoff(t.flareClass)]

(* ------------------------------ timers -------------------------------- *)

\* setTimeout(() => { masterGainRef.current?.disconnect(); ... }, 150)
\* faded (history) is the master bus the registering stopAll() faded out
DisconnectTimer(faded) ==
    [kind |-> "disconnect", delay |-> DisconnectDelay, remaining |-> DisconnectDelay,
     newMode |-> "-", volume |-> 0, faded |-> faded, ver |-> 0]

\* setTimeout(() => { ...rebuild... }, 50); the callback closes over newMode
\* and over the volume and the props of the render that ran switchMode;
\* ver (history) is the number of transitions issued when it was registered
RebuildTimer(m, v, n, t) ==
    [kind |-> "rebuild", delay |-> RebuildDelay, remaining |-> RebuildDelay,
     newMode |-> m, volume |-> v, faded |-> NoMaster, ver |-> n, telemetry |-> t]

RemoveAt(s, i) == [j \in 1..(Len(s) - 1) |-> IF j < i THEN s[j] ELSE s[j + 1]]

\* timer i is due, and no timer registered before it with a delay no
\* longer than its own is due as well
CanFire(i) ==
    /\ i \in DOMAIN timers
    /\ timers[i].remaining = 0
    /\ \A j \in 1..(i - 1) :
          ~(timers[j].remaining = 0 /\ timers[j].delay <= timers[i].delay)

(* ------------------------------- Init --------------------------------- *)

NoBuild == [id |-> 0, mode |-> "-", via |-> "-", stale |-> FALSE, playing |-> FALSE]
NoDisc == [faded |-> NoMaster, got |-> NoMaster]

\* probe before a generator ran
NoProbe == [density |-> 0, chance |-> 0, next |-> 0, done |-> FALSE]

Init ==
    /\ probe = NoProbe
    /\ isPlaying = FALSE
    /\ mode = InitialMode
    /\ volume = InitialVolume
    /\ audioCtxRef = Null
    /\ masterGainRef = NoMaster
    /\ oscillatorsRef = <<>>
    /\ ctxState = "none"
    /\ ctxQueue = <<>>
    /\ created = {}
    /\ started = {}
    /\ stopped = {}
    /\ edges = {}
    /\ masterGain = <<>>
    /\ timers = <<>>
    /\ nextId = 1
    /\ mounted = TRUE
    /\ hostHasAudio \in BOOLEAN
    /\ errorEscaped = FALSE
    /\ hist = <<>>
    /\ lastBuild = NoBuild
    /\ lastDisc = NoDisc
    /\ telemetry = DefaultTelemetry
    /\ params = <<>>

(* ----------------------------- operations ----------------------------- *)

\* history entry of an operation, with the state it was issued in
Op(name, arg) ==
    [name |-> name, arg |-> arg, playing |-> isPlaying, mode |-> mode, volume |-> volume]

IsTransition(e) ==
    \/ e.name \in {"toggle", "unmount"}
    \/ e.name = "switchMode" /\ e.arg # e.mode

\* number of transitions (start, stop, effective mode switch, unmount) in h
Transitions(h) == Cardinality({i \in DOMAIN h : IsTransition(h[i])})

\* stopAll() that fades the master but leaves the sources running
StopAllKeepSources(extra) ==
    /\ masterGain' =
          IF masterGainRef # NoMaster
          THEN [masterGain EXCEPT ![masterGainRef] = [@ EXCEPT !.ramped = TRUE, !.target = 0]]
          ELSE masterGain
    /\ timers' =
          (IF masterGainRef # NoMaster
           THEN Append(timers, DisconnectTimer(masterGainRef))
           ELSE timers) \o extra
    /\ ctxQueue' =
          IF audioCtxRef # Null /\ ctxState = "running"
          THEN Request(ctxState, ctxQueue, "suspend")
          ELSE ctxQueue
    /\ UNCHANGED <<audioCtxRef, masterGainRef, ctxState, created, started,
                   nextId, params, lastBuild, stopped, edges, oscillatorsRef>>

\* stopAll() that empties oscillatorsRef without stopping the sources
StopAllDropsHandles(extra) ==
    /\ masterGain' =
          IF masterGainRef # NoMaster
          THEN [masterGain EXCEPT ![masterGainRef] = [@ EXCEPT !.ramped = TRUE, !.target = 0]]
          ELSE masterGain
    /\ timers' =
          (IF masterGainRef # NoMaster
           THEN Append(timers, DisconnectTimer(masterGainRef))
           ELSE timers) \o extra
    /\ oscillatorsRef' = <<>>
    /\ ctxQueue' =
          IF audioCtxRef # Null /\ ctxState = "running"
          THEN Request(ctxState, ctxQueue, "suspend")
          ELSE ctxQueue
    /\ UNCHANGED <<audioCtxRef, masterGainRef, ctxState, created, started,
                   nextId, params, lastBuild, stopped, edges>>

\* stopAll(), followed by the registration of the timers in extra
StopAll(extra) ==
    /\ masterGain' =
          IF masterGainRef # NoMaster
          THEN [masterGain EXCEPT ![masterGainRef] = [@ EXCEPT !.ramped = TRUE, !.target = 0]]
          ELSE masterGain
    /\ timers' =
          (IF masterGainRef # NoMaster
           THEN Append(timers, DisconnectTimer(masterGainRef))
           ELSE timers) \o extra
    /\ stopped' = stopped \cup Range(oscillatorsRef)
    /\ edges' = {e \in edges : e[1] \notin Range(oscillatorsRef)}
    /\ oscillatorsRef' = <<>>
    /\ ctxQueue' =
          IF audioCtxRef # Null /\ ctxState = "running"
          THEN Request(ctxState, ctxQueue, "suspend")
          ELSE ctxQueue
    /\ UNCHANGED <<audioCtxRef, masterGainRef, ctxState, created, started,
                   nextId, params, lastBuild>>

\* the build sequence shared by toggle() and the rebuild timer of
\* switchMode(): context, master gain, then playMagnetosphere / playSun
Build(m, vol, via, stale, t) ==
    LET b == nextId
        fresh == audioCtxRef = Null
        s == IF fresh THEN "suspended" ELSE ctxState
        q == IF fresh THEN <<>> ELSE ctxQueue
    IN /\ audioCtxRef' = Ctx
       /\ ctxState' = s
       /\ ctxQueue' = Request(s, q, "resume")
       /\ created' = created \cup {<<b, "master">>}
                        \cup {<<b, k>> : k \in Range(SourceKinds(m)) \cup InnerKinds(m)}
       /\ masterGain' = Append(masterGain, [value |-> vol, ramped |-> FALSE, target |-> vol])
       /\ edges' = edges \cup {<<<<b, "master">>, Dest>>} \cup GraphEdges(b, m)
       /\ masterGainRef' = b
       /\ started' = started \cup Range(SourceHandles(b, m))
       /\ oscillatorsRef' = oscillatorsRef \o SourceHandles(b, m)
       /\ nextId' = b + 1
       /\ params' = Append(params, NodeParams(m, t))
       /\ lastBuild' = [id |-> b, mode |-> m, via |-> via, stale |-> stale,
                        playing |-> isPlaying']

AudioVars == <<audioCtxRef, masterGainRef, oscillatorsRef, ctxState, ctxQueue,
               created, started, stopped, edges, masterGain, nextId, params,
               lastBuild>>

\* toggle() that gives the new master the default gain instead of volume
ToggleDefaultVolume ==
    /\ mounted
    /\ Len(hist) < MaxOps
    /\ hist' = Append(hist, Op("toggle", "-"))
    /\ UNCHANGED <<mode, volume, mounted, hostHasAudio, probe, telemetry, lastDisc>>
    /\ IF isPlaying
       THEN /\ isPlaying' = FALSE
            /\ StopAll(<<>>)
            /\ UNCHANGED errorEscaped
       ELSE /\ isPlaying' = TRUE
            /\ IF audioCtxRef = Null /\ ~hostHasAudio
               THEN \* new (window.AudioContext || ...)() throws
                    /\ errorEscaped' = TRUE
                    /\ UNCHANGED <<AudioVars, timers>>
               ELSE /\ Build(mode, InitialVolume, "toggle", FALSE, telemetry)
                    /\ UNCHANGED <<stopped, timers, errorEscaped>>

\* toggle() whose stop branch leaves isPlaying as it is
ToggleStopKeepsPlaying ==
    /\ mounted
    /\ Len(hist) < MaxOps
    /\ hist' = Append(hist, Op("toggle", "-"))
    /\ UNCHANGED <<mode, volume, mounted, hostHasAudio, probe, telemetry, lastDisc>>
    /\ IF isPlaying
       THEN /\ isPlaying' = isPlaying
            /\ StopAll(<<>>)
            /\ UNCHANGED errorEscaped
       ELSE /\ isPlaying' = TRUE
            /\ IF audioCtxRef = Null /\ ~hostHasAudio
               THEN \* new (window.AudioContext || ...)() throws
                    /\ errorEscaped' = TRUE
                    /\ UNCHANGED <<AudioVars, timers>>
               ELSE /\ Build(mode, volume, "toggle", FALSE, telemetry)
                    /\ UNCHANGED <<stopped, timers, errorEscaped>>

\* toggle()
Toggle ==
    /\ mounted
    /\ Len(hist) < MaxOps
    /\ hist' = Append(hist, Op("toggle", "-"))
    /\ UNCHANGED <<mode, volume, mounted, hostHasAudio, probe, telemetry, lastDisc>>
    /\ IF isPlaying
       THEN /\ isPlaying' = FALSE
            /\ StopAll(<<>>)
            /\ UNCHANGED errorEscaped
       ELSE /\ isPlaying' = TRUE
            /\ IF audioCtxRef = Null /\ ~hostHasAudio
               THEN \* new (window.AudioContext || ...)() throws
                    /\ errorEscaped' = TRUE
                    /\ UNCHANGED <<AudioVars, timers>>
               ELSE /\ Build(mode, volume, "toggle", FALSE, telemetry)
                    /\ UNCHANGED <<stopped, timers, errorEscaped>>

\* switchMode(newMode) that records the new mode only while playing
SwitchModeIdleIgnored(newMode) ==
    /\ mounted
    /\ Len(hist) < MaxOps
    /\ hist' = Append(hist, Op("switchMode", newMode))
    /\ UNCHANGED <<isPlaying, volume, mounted, hostHasAudio, probe, telemetry, errorEscaped, lastDisc>>
    /\ IF mode = newMode
       THEN UNCHANGED <<mode, AudioVars, timers>>
       ELSE IF isPlaying
            THEN /\ StopAll(<<RebuildTimer(newMode, volume, Transitions(hist'), telemetry)>>)
                 /\ mode' = newMode
            ELSE UNCHANGED <<mode, AudioVars, timers>>

\* switchMode(newMode) without the early return on mode === newMode
SwitchModeNoGuard(newMode) ==
    /\ mounted
    /\ Len(hist) < MaxOps
    /\ hist' = Append(hist, Op("switchMode", newMode))
    /\ UNCHANGED <<isPlaying, volume, mounted, hostHasAudio, probe, telemetry, errorEscaped, lastDisc>>
    /\ IF isPlaying
       THEN /\ StopAll(<<RebuildTimer(newMode, volume, Transitions(hist'), telemetry)>>)
            /\ mode' = newMode
       ELSE /\ mode' = newMode
            /\ UNCHANGED <<AudioVars, timers>>

\* switchMode(newMode)
SwitchMode(newMode) ==
    /\ mounted
    /\ Len(hist) < MaxOps
    /\ hist' = Append(hist, Op("switchMode", newMode))
    /\ UNCHANGED <<isPlaying, volume, mounted, hostHasAudio, probe, telemetry, errorEscaped, lastDisc>>
    /\ IF mode = newMode
       THEN UNCHANGED <<mode, AudioVars, timers>>
       ELSE IF isPlaying
            THEN /\ StopAll(<<RebuildTimer(newMode, volume, Transitions(hist'), telemetry)>>)
                 /\ mode' = newMode
            ELSE /\ mode' = newMode
                 /\ UNCHANGED <<AudioVars, timers>>

\* setVolume(v) whose effect writes master.gain.value instead of ramping
SetVolumeDirect(v) ==
    /\ mounted
    /\ Len(hist) < MaxOps
    /\ v # volume
    /\ hist' = Append(hist, Op("setVolume", v))
    /\ volume' = v
    /\ masterGain' =
          IF masterGainRef # NoMaster /\ audioCtxRef # Null
          THEN [masterGain EXCEPT ![masterGainRef] = [@ EXCEPT !.value = v, !.target = v]]
          ELSE masterGain
    /\ UNCHANGED <<isPlaying, mode, audioCtxRef, masterGainRef, oscillatorsRef,
                   ctxState, ctxQueue, created, started, stopped, edges, timers,
                   nextId, params, mounted, hostHasAudio, probe, telemetry, errorEscaped, lastBuild, lastDisc>>

\* the volume slider's onChange -> setVolume(v), and the [volume] effect
SetVolume(v) ==
    /\ mounted
    /\ Len(hist) < MaxOps
    /\ v # volume
    /\ hist' = Append(hist, Op("setVolume", v))
    /\ volume' = v
    /\ masterGain' =
          IF masterGainRef # NoMaster /\ audioCtxRef # Null
          THEN [masterGain EXCEPT ![masterGainRef] = [@ EXCEPT !.ramped = TRUE, !.target = v]]
          ELSE masterGain
    /\ UNCHANGED <<isPlaying, mode, audioCtxRef, masterGainRef, oscillatorsRef,
                   ctxState, ctxQueue, created, started, stopped, edges, timers,
                   nextId, params, mounted, hostHasAudio, probe, telemetry, errorEscaped, lastBuild, lastDisc>>

\* the cleanup of useEffect(() => { return () => stopAll(); }, [])
Unmount ==
    /\ mounted
    /\ Len(hist) < MaxOps
    /\ hist' = Append(hist, Op("unmount", "-"))
    /\ mounted' = FALSE
    /\ StopAll(<<>>)
    /\ UNCHANGED <<isPlaying, mode, volume, hostHasAudio, probe, telemetry, errorEscaped, lastDisc>>

\* the callback of stopAll()'s setTimeout(..., 150)
FireDisconnect(i) ==
    /\ CanFire(i)
    /\ timers[i].kind = "disconnect"
    /\ timers' = RemoveAt(timers, i)
    /\ edges' = {e \in edges : masterGainRef = NoMaster \/ e[1] # <<masterGainRef, "master">>}
    /\ masterGainRef' = NoMaster
    /\ lastDisc' = [faded |-> timers[i].faded, got |-> masterGainRef]
    /\ UNCHANGED <<isPlaying, mode, volume, audioCtxRef, oscillatorsRef, ctxState,
                   ctxQueue, created, started, stopped, masterGain, nextId, params,
                   mounted, hostHasAudio, probe, telemetry, errorEscaped, hist, lastBuild>>

\* the callback of switchMode()'s setTimeout(..., 50)
FireRebuild(i) ==
    /\ CanFire(i)
    /\ timers[i].kind = "rebuild"
    /\ timers' = RemoveAt(timers, i)
    /\ UNCHANGED <<isPlaying, mode, volume, mounted, hostHasAudio, probe, telemetry, errorEscaped,
                   hist, lastDisc>>
    /\ IF audioCtxRef = Null
       THEN UNCHANGED AudioVars
       ELSE /\ Build(timers[i].newMode, timers[i].volume, "rebuild",
                     timers[i].ver # Transitions(hist), timers[i].telemetry)
            /\ UNCHANGED stopped

\* 50 ms pass; a timer that is due fires before more time passes
Tick ==
    /\ timers # <<>>
    /\ \A i \in DOMAIN timers : timers[i].remaining > 0
    /\ timers' = [i \in DOMAIN timers |->
                     [timers[i] EXCEPT !.remaining = @ - 1]]
    /\ UNCHANGED <<isPlaying, mode, volume, AudioVars, mounted, hostHasAudio, probe, telemetry,
                   errorEscaped, hist, lastDisc>>

\* the audio context applies the oldest queued resume()/suspend()
CtxSettle ==
    /\ ctxQueue # <<>>
    /\ ctxState' = IF Head(ctxQueue) = "resume" THEN "running" ELSE "suspended"
    /\ ctxQueue' = Tail(ctxQueue)
    /\ UNCHANGED <<isPlaying, mode, volume, audioCtxRef, masterGainRef,
                   oscillatorsRef, created, started, stopped, edges, masterGain,
                   timers, nextId, params, mounted, hostHasAudio, probe, telemetry, errorEscaped, hist,
                   lastBuild, lastDisc>>

\* a new render with props that retune the master's graph
TelemetryChangeRetunes(t) ==
    /\ mounted
    /\ Len(hist) < MaxOps
    /\ t # telemetry
    /\ hist' = Append(hist, Op("telemetry", "-"))
    /\ telemetry' = t
    /\ params' = IF masterGainRef # NoMaster
                  THEN [params EXCEPT ![masterGainRef] = NodeParams(mode, t)]
                  ELSE params
    /\ UNCHANGED <<isPlaying, mode, volume, audioCtxRef, masterGainRef,
                   oscillatorsRef, ctxState, ctxQueue, created, started, stopped,
                   edges, masterGain, timers, nextId, mounted, hostHasAudio,
                   probe, errorEscaped, lastBuild, lastDisc>>

\* App renders SpaceSound with new props: no effect with audio work
\* depends on them
TelemetryChange(t) ==
    /\ mounted
    /\ Len(hist) < MaxOps
    /\ t # telemetry
    /\ hist' = Append(hist, Op("telemetry", "-"))
    /\ telemetry' = t
    /\ UNCHANGED <<isPlaying, mode, volume, audioCtxRef, masterGainRef,
                   oscillatorsRef, ctxState, ctxQueue, created, started, stopped,
                   edges, masterGain, timers, nextId, params, mounted,
                   hostHasAudio, probe, errorEscaped, lastBuild, lastDisc>>

Next ==
    \/ Toggle
    \/ \E m \in Modes : SwitchMode(m)
    \/ \E v \in Volumes : SetVolume(v)
    \/ Unmount
    \/ \E i \in DOMAIN timers : FireDisconnect(i)
    \/ \E i \in DOMAIN timers : FireRebuild(i)
    \/ Tick
    \/ CtxSettle
    \/ \E t \in Snapshots : TelemetryChange(t)

Spec == Init /\ [][Next]_vars

(* ------------------------------ typing -------------------------------- *)

TypeOK ==
    /\ isPlaying \in BOOLEAN
    /\ mode \in Modes
    /\ volume \in Volumes
    /\ audioCtxRef \in {Null, Ctx}
    /\ masterGainRef \in {NoMaster} \cup (1..(nextId - 1))
    /\ Range(oscillatorsRef) \subseteq started
    /\ ctxState \in {"none", "suspended", "running"}
    /\ stopped \subseteq started
    /\ started \subseteq created
    /\ Len(masterGain) = nextId - 1
    /\ Len(params) = nextId - 1
    /\ telemetry \in Snapshots
    /\ Len(hist) <= MaxOps

(* ------------------------- derived state ------------------------------ *)

\* source nodes that were started and not yet stopped
Running == started \ stopped

Master(b) == <<b, "master">>

\* master bus b is connected to ctx.destination
ConnectedToSink(b) == <<Master(b), Dest>> \in edges

\* the node an AudioParam belongs to
ParamOwner(n) ==
    IF n[2] = "toneMix.gain" THEN <<n[1], "toneMix">>
    ELSE IF n[2] = "noiseGain.gain" THEN <<n[1], "noiseGain">>
    ELSE n

\* the nodes one connection away from the nodes of S
Step(S) == S \cup {ParamOwner(e[2]) : e \in {d \in edges : d[1] \in S}}

\* the nodes the signal of n reaches (no path is longer than 4 connections)
Reach(n) == Step(Step(Step(Step({n}))))

\* the connections that carry the signal of the running sources, by kind
LiveTopology ==
    LET live == UNION {Reach(n) : n \in Running}
    IN {<<e[1][2], e[2][2]>> : e \in {d \in edges : d[1] \in live}}

\* the connections of a graph of mode m right after its build
FreshTopology(m) ==
    {<<e[1][2], e[2][2]>> : e \in GraphEdges(1, m) \cup {<<Master(1), Dest>>}}

\* build b is the one graph alive: its sources, and only they, run, every
\* connection of the build is in place and its master reaches the sink
GraphIntact(b, m) ==
    /\ Running = Range(SourceHandles(b, m))
    /\ GraphEdges(b, m) \subseteq edges
    /\ ConnectedToSink(b)

LastOp == hist[Len(hist)]

(* ------------------------------ claims -------------------------------- *)

\* C1: at most one built graph is alive at a time: the running (started and
\* not yet stopped) source nodes never belong to two different builds.
C1_OneGraphAlive ==
    \A x \in Running : \A y \in Running : x[1] = y[1]

\* C2: on a host that provides an audio context, the controller holds a
\* master bus (masterGainRef is non-null) if and only if isPlaying is true.
C2_MasterIffPlaying ==
    hostHasAudio => ((masterGainRef # NoMaster) <=> isPlaying)

\* C3: after switchMode(newMode) issued while playing in another mode, with
\* no toggle()/switchMode()/unmount after it, once no timer is pending the
\* controller plays newMode, holds a master bus connected to the sink, and
\* the running sources are exactly those of one newMode graph on that bus.
C3_SwitchSettles ==
    \A i \in DOMAIN hist :
        ( /\ hostHasAudio
          /\ hist[i].name = "switchMode"
          /\ hist[i].playing
          /\ hist[i].arg # hist[i].mode
          /\ \A j \in (i + 1)..Len(hist) : hist[j].name = "setVolume"
          /\ timers = <<>> )
        => /\ isPlaying
           /\ mode = hist[i].arg
           /\ masterGainRef # NoMaster
           /\ GraphIntact(masterGainRef, hist[i].arg)

\* C4: a rebuild superseded by a later transition builds nothing: no graph
\* is built by a stale rebuild timer, and none is built (no source node is
\* started) while isPlaying is false.
C4_StaleRebuildSuperseded ==
    lastBuild.id # 0 => (~lastBuild.stale /\ lastBuild.playing)

\* C5: no node leaks: once no timer is pending, every running source node
\* belongs to the graph that feeds the master bus the controller holds, and
\* every other master bus is disconnected from the sink.
C5_NoLeak ==
    timers = <<>> =>
        /\ \A n \in Running :
              /\ masterGainRef # NoMaster
              /\ n[1] = masterGainRef
              /\ Master(masterGainRef) \in Reach(n)
        /\ \A b \in 1..(nextId - 1) :
              b # masterGainRef => ~ConnectedToSink(b)

\* C6: start, stop, start from Idle (three toggle() calls and nothing else),
\* once no timer is pending, is playing with mode and volume unchanged and a
\* graph with the source count and the topology of a first start.
C6_StartStopStart ==
    ( /\ hostHasAudio
      /\ Len(hist) = 3
      /\ \A i \in DOMAIN hist : hist[i].name = "toggle"
      /\ timers = <<>> )
    => /\ isPlaying
       /\ mode = InitialMode
       /\ volume = InitialVolume
       /\ Cardinality(Running) = Len(SourceKinds(mode))
       /\ LiveTopology = FreshTopology(mode)

\* C7: the delayed disconnect-and-discard of a teardown acts on the master
\* bus that teardown faded out (or on none), never on one created later.
C7_DisconnectsFadedBus ==
    lastDisc.got <= lastDisc.faded

\* C8: after unmount, once no timer is pending, no source node is running
\* and no master bus is connected to the sink.
C8_UnmountLeavesNothing ==
    (~mounted /\ timers = <<>>) =>
        /\ Running = {}
        /\ \A b \in 1..(nextId - 1) : ~ConnectedToSink(b)

\* C9: on a host without an audio context, start() leaves isPlaying false,
\* builds no node and lets no error escape toggle().
C9_NoBackendStaysIdle ==
    ~hostHasAudio => (~isPlaying /\ created = {} /\ ~errorEscaped)

\* C10: switchMode(X) while the mode is X, playing or idle, creates no node,
\* stops and disconnects no node, schedules no timer, and leaves isPlaying,
\* mode and volume unchanged.
C10_SameModeSwitchIsNoop ==
    [][ ( /\ Len(hist') = Len(hist) + 1
          /\ hist'[Len(hist')].name = "switchMode"
          /\ hist'[Len(hist')].arg = mode )
        => UNCHANGED <<isPlaying, mode, volume, audioCtxRef, masterGainRef,
                       oscillatorsRef, ctxQueue, created, started, stopped,
                       edges, masterGain, timers, nextId>> ]_vars

\* a same-mode switchMode was issued while a graph was playing
C10_Witness ==
    /\ hist # <<>>
    /\ LastOp.name = "switchMode"
    /\ LastOp.arg = LastOp.mode
    /\ LastOp.playing
    /\ Running # {}
    /\ timers = <<>>

\* the step is the user operation name
Issued(name) ==
    /\ Len(hist') = Len(hist) + 1
    /\ hist'[Len(hist')].name = name

\* the argument of the user operation of the step
IssuedArg == hist'[Len(hist')].arg

\* C11: switchMode(newMode) while not playing only records the new mode: no
\* audio context, master bus or node is created, no timer is scheduled,
\* isPlaying and volume stay as they are; and (on a host with audio) the
\* start() that follows builds the graph of newMode.
C11_IdleSwitchOnlyRecordsMode ==
    [][ /\ (Issued("switchMode") /\ ~isPlaying) =>
              /\ mode' = IssuedArg
              /\ UNCHANGED <<isPlaying, volume, audioCtxRef, masterGainRef,
                             oscillatorsRef, ctxState, ctxQueue, created, started,
                             stopped, edges, masterGain, timers, nextId>>
        /\ ( /\ Issued("toggle") /\ ~isPlaying /\ hostHasAudio
             /\ hist # <<>>
             /\ LastOp.name = "switchMode"
             /\ ~LastOp.playing ) =>
              /\ lastBuild'.id = nextId
              /\ lastBuild'.mode = LastOp.arg
              /\ Range(SourceHandles(nextId, LastOp.arg)) \subseteq started' \ stopped'
              /\ GraphEdges(nextId, LastOp.arg) \subseteq edges' ]_vars

\* an idle switchMode to the other mode was followed by a start, which
\* built the graph of that mode
C11_Witness ==
    /\ Len(hist) >= 2
    /\ LastOp.name = "toggle"
    /\ ~LastOp.playing
    /\ hist[Len(hist) - 1].name = "switchMode"
    /\ ~hist[Len(hist) - 1].playing
    /\ hist[Len(hist) - 1].arg # hist[Len(hist) - 1].mode
    /\ lastBuild.mode = hist[Len(hist) - 1].arg
    /\ Running = Range(SourceHandles(lastBuild.id, lastBuild.mode))

\* C12: on stop() no source node is stopped or disconnected before the
\* fade-out interval has elapsed: the step of a stopping toggle() only
\* requests the ramp, and leaves the sources and the connections alone.
C12_StopWaitsForFade ==
    [][ (Issued("toggle") /\ isPlaying) =>
            /\ stopped' = stopped
            /\ edges' = edges ]_vars

C14_VolumeReachesActiveBus ==
    [][ (Issued("setVolume") /\ isPlaying /\ timers = <<>> /\ hostHasAudio) =>
            /\ masterGainRef # NoMaster
            /\ masterGain'[masterGainRef].target = IssuedArg
            /\ \A n \in Running : n[1] = masterGainRef ]_vars

\* the volume after the operations of h: the argument of the last setVolume
VolumeAfter(h) ==
    LET S == {i \in DOMAIN h : h[i].name = "setVolume"}
    IN IF S = {} THEN InitialVolume
       ELSE h[CHOOSE i \in S : \A j \in S : j <= i].arg

\* C15: the master bus created by a start() has initial gain equal to the
\* most recently set volume, also when it was set while not playing.
C15_StartUsesLatestVolume ==
    ( /\ hist # <<>>
      /\ LastOp.name = "toggle"
      /\ ~LastOp.playing
      /\ lastBuild.via = "toggle" )
    => masterGain[lastBuild.id].value = VolumeAfter(hist)

\* a volume other than the initial one was set while not playing, and the
\* start that followed created its master with it
C15_Witness ==
    /\ Len(hist) >= 2
    /\ LastOp.name = "toggle"
    /\ ~LastOp.playing
    /\ hist[Len(hist) - 1].name = "setVolume"
    /\ ~hist[Len(hist) - 1].playing
    /\ lastBuild.via = "toggle"
    /\ masterGain[lastBuild.id].value = hist[Len(hist) - 1].arg
    /\ masterGain[lastBuild.id].value # InitialVolume

\* C16: once a master bus exists its gain value is never written directly:
\* setVolume and stop only issue ramps (setTargetAtTime) towards a target.
C16_GainOnlyRamped ==
    [][ \A b \in DOMAIN masterGain :
            masterGain'[b].value = masterGain[b].value ]_vars

\* a setVolume while playing ramped the held master to a new target, and a
\* stop ramped an earlier master to 0, the written values left as created
C16_Witness ==
    /\ hist # <<>>
    /\ LastOp.name = "setVolume"
    /\ LastOp.playing
    /\ masterGainRef # NoMaster
    /\ masterGain[masterGainRef].ramped
    /\ masterGain[masterGainRef].target = volume
    /\ masterGain[masterGainRef].value # volume

\* C17: setVolume(v) clamps its argument to [0,1] (0..100 hundredths): the
\* stored volume is min(max(v,0),1), so it is in [0,1] in every state.
C17_VolumeClamped ==
    /\ 0 <= volume /\ volume <= 100
    /\ (hist # <<>> /\ LastOp.name = "setVolume") =>
          volume = (IF LastOp.arg < 0 THEN 0
                    ELSE IF LastOp.arg > 100 THEN 100 ELSE LastOp.arg)

\* C18: two toggle() calls in succession return isPlaying to the value it
\* had before them and leave mode and volume unchanged.
C18_DoubleToggleRoundTrip ==
    ( /\ Len(hist) >= 2
      /\ LastOp.name = "toggle"
      /\ hist[Len(hist) - 1].name = "toggle" )
    => /\ isPlaying = hist[Len(hist) - 1].playing
       /\ mode = hist[Len(hist) - 1].mode
       /\ volume = hist[Len(hist) - 1].volume

\* two toggles were issued in succession while a graph was playing: a stop
\* and a start, after which a graph plays again
C18_Witness ==
    /\ Len(hist) >= 3
    /\ LastOp.name = "toggle"
    /\ hist[Len(hist) - 1].name = "toggle"
    /\ hist[Len(hist) - 1].playing
    /\ isPlaying
    /\ Running # {}

\* C19: the teardown sequence invoked while isPlaying is false (the unmount
\* cleanup after a stop) stops and disconnects no node, retargets no gain
\* and schedules no timer.
C19_IdleTeardownIsNoop ==
    [][ (Issued("unmount") /\ ~isPlaying) =>
            UNCHANGED <<stopped, edges, masterGain, timers>> ]_vars

\* the step builds a graph from the rebuild timer of switchMode
Rebuilt ==
    /\ nextId' = nextId + 1
    /\ lastBuild'.via = "rebuild"

\* C25: the master bus created by the rebuild step of switchMode has
\* initial gain equal to the volume that is current when the rebuild runs,
\* also when setVolume(v) was called during the 50 ms delay.
C25_RebuildUsesCurrentVolume ==
    [][ Rebuilt => masterGain'[nextId].value = volume ]_vars

\* the step runs stopAll(): a stopping toggle(), a switchMode() to another
\* mode while playing, or the unmount cleanup
TearsDown ==
    \/ Issued("toggle") /\ isPlaying
    \/ Issued("switchMode") /\ isPlaying /\ IssuedArg # mode
    \/ Issued("unmount")

\* C26: in every state every source started and not yet stopped is in
\* oscillatorsRef; a Magnetosphere build starts and records exactly 6
\* sources and a Sun build exactly 5; a teardown stops every recorded
\* handle and empties the list.
C26_RunningSourcesRecorded ==
    [][ /\ (started' \ stopped') \subseteq Range(oscillatorsRef')
        /\ nextId' = nextId + 1 =>
              /\ Cardinality(started' \ started) =
                    (IF lastBuild'.mode = "magnetosphere" THEN 6 ELSE 5)
              /\ Len(oscillatorsRef') = Len(oscillatorsRef) + Cardinality(started' \ started)
              /\ (started' \ started) \subseteq Range(oscillatorsRef')
        /\ TearsDown =>
              /\ Range(oscillatorsRef) \subseteq stopped'
              /\ oscillatorsRef' = <<>> ]_vars

\* a Magnetosphere graph and then a Sun graph were built and recorded, and
\* a teardown stopped all 11 sources and emptied the list
C26_Witness ==
    /\ lastBuild.mode = "sun"
    /\ lastBuild.id = 2
    /\ Cardinality(stopped) = 11
    /\ oscillatorsRef = <<>>
    /\ Running = {}

\* C27: all signal reaches the sink only through the master bus given to
\* the build: in every state the only nodes connected to ctx.destination
\* are master gain nodes, and every connection out of an oscillator, noise
\* source, filter or layer gain leads to a node of its own build.
C27_OnlyMasterReachesSink ==
    \A e \in edges :
        /\ e[2] = Dest => e[1][2] = "master"
        /\ e[1][2] # "master" => (e[2] # Dest /\ e[2][1] = e[1][1])

\* a graph is playing through its master bus into the sink
C27_Witness ==
    /\ isPlaying
    /\ masterGainRef # NoMaster
    /\ ConnectedToSink(masterGainRef)
    /\ Running = Range(SourceHandles(masterGainRef, mode))
    /\ \A n \in Running : Dest \in Reach(n)

\* C29: setVolume(v) while isPlaying is false only stores v: it retargets
\* or writes the gain of no node, also during the 150 ms after a stop()
\* while the faded-out master bus is still held.
C29_IdleSetVolumeOnlyStores ==
    [][ (Issued("setVolume") /\ ~isPlaying) =>
            /\ volume' = IssuedArg
            /\ masterGain' = masterGain ]_vars

\* C30: a change of the telemetry props while playing creates, stops and
\* disconnects no node, changes no node parameter and leaves isPlaying,
\* mode and volume unchanged; a graph keeps the parameters of its build,
\* computed from one snapshot, in every later step.
C30_TelemetryChangeKeepsGraph ==
    [][ /\ (telemetry' # telemetry /\ isPlaying) =>
              UNCHANGED <<isPlaying, mode, volume, audioCtxRef, masterGainRef,
                          oscillatorsRef, ctxState, ctxQueue, created, started,
                          stopped, edges, masterGain, timers, nextId, params>>
        /\ \A b \in DOMAIN params : params'[b] = params[b]
        /\ nextId' = nextId + 1 =>
              \E t \in Snapshots : params'[nextId] = NodeParams(lastBuild'.mode, t) ]_vars

\* the props changed while a graph was playing, which still has the
\* parameters of the snapshot it was built from
C30_Witness ==
    /\ isPlaying
    /\ masterGainRef # NoMaster
    /\ Running = Range(SourceHandles(masterGainRef, mode))
    /\ telemetry = StormTelemetry
    /\ params[masterGainRef] = NodeParams(mode, DefaultTelemetry)

(* --------------------- createGranularNoise alone ---------------------- *)

\* createGranularNoise(ctx, density): the grain probability for the density
\* of the probe, and (for comparison) for the next larger density
CreateGranularNoise ==
    /\ ~probe.done
    /\ probe' = [probe EXCEPT !.chance = GrainChance(probe.density),
                              !.next = GrainChance(probe.density + 1),
                              !.done = TRUE]
    /\ UNCHANGED <<isPlaying, mode, volume, audioCtxRef, masterGainRef,
                   oscillatorsRef, ctxState, ctxQueue, created, started, stopped,
                   edges, masterGain, timers, nextId, mounted, hostHasAudio,
                   errorEscaped, hist, lastBuild, lastDisc, telemetry, params>>

InitGrain ==
    /\ probe \in {[NoProbe EXCEPT !.density = d] : d \in 0..MaxDensity}
    /\ isPlaying = FALSE
    /\ mode = InitialMode
    /\ volume = InitialVolume
    /\ audioCtxRef = Null
    /\ masterGainRef = NoMaster
    /\ oscillatorsRef = <<>>
    /\ ctxState = "none"
    /\ ctxQueue = <<>>
    /\ created = {}
    /\ started = {}
    /\ stopped = {}
    /\ edges = {}
    /\ masterGain = <<>>
    /\ timers = <<>>
    /\ nextId = 1
    /\ mounted = TRUE
    /\ hostHasAudio = TRUE
    /\ errorEscaped = FALSE
    /\ hist = <<>>
    /\ lastBuild = NoBuild
    /\ lastDisc = NoDisc
    /\ telemetry = DefaultTelemetry
    /\ params = <<>>

NextGrain == CreateGranularNoise

SpecGrain == InitGrain /\ [][NextGrain]_vars

\* C20: for every density d >= 0 the grain probability lies in
\* [0.0005, 0.01], does not decrease when d grows, and is 0.01 exactly when
\* d >= 95 (950 tenths).
C20_GrainChanceBounded ==
    probe.done =>
        /\ GrainBase <= probe.chance
        /\ probe.chance <= GrainCap
        /\ probe.chance <= probe.next
        /\ (probe.chance = GrainCap) <=> (probe.density >= 950)

\* the probability was computed at the density where it saturates
C20_Witness ==
    /\ probe.done
    /\ probe.density = 950
    /\ probe.chance = GrainCap

(* ----------------- playMagnetosphere's parameters alone --------------- *)

\* the controller as constructed, which the functions checked alone leave
\* as it is
Controller == <<isPlaying, mode, volume, audioCtxRef, masterGainRef,
                oscillatorsRef, ctxState, ctxQueue, created, started, stopped,
                edges, masterGain, timers, nextId, mounted, hostHasAudio,
                errorEscaped, hist, lastBuild, lastDisc, telemetry, params>>

Constructed ==
    /\ isPlaying = FALSE
    /\ mode = InitialMode
    /\ volume = InitialVolume
    /\ audioCtxRef = Null
    /\ masterGainRef = NoMaster
    /\ oscillatorsRef = <<>>
    /\ ctxState = "none"
    /\ ctxQueue = <<>>
    /\ created = {}
    /\ started = {}
    /\ stopped = {}
    /\ edges = {}
    /\ masterGain = <<>>
    /\ timers = <<>>
    /\ nextId = 1
    /\ mounted = TRUE
    /\ hostHasAudio = TRUE
    /\ errorEscaped = FALSE
    /\ hist = <<>>
    /\ lastBuild = NoBuild
    /\ lastDisc = NoDisc
    /\ telemetry = DefaultTelemetry
    /\ params = <<>>

\* playMagnetosphere(ctx, dest): the values it computes from the windSpeed
\* and windDensity props (windDensity in tenths), and densityVol for the
\* next larger density for comparison
PlayMagnetosphere ==
    /\ ~probe.done
    /\ probe' = [probe EXCEPT !.baseFreq = BaseFreq(probe.windSpeed),
                              !.densityVol = DensityVol(probe.windDensity),
                              !.densityVolNext = DensityVol(probe.windDensity + 1),
                              !.done = TRUE]
    /\ UNCHANGED Controller

InitMagnetosphere ==
    /\ probe \in [windSpeed : (-MaxNegWindSpeed)..MaxWindSpeed,
                  windDensity : {10 * d : d \in (-MaxNegWindDensity)..MaxWindDensity},
                  baseFreq : {0}, densityVol : {0}, densityVolNext : {0},
                  done : {FALSE}]
    /\ Constructed

NextMagnetosphere == PlayMagnetosphere

SpecMagnetosphere == InitMagnetosphere /\ [][NextMagnetosphere]_vars

\* C21: for every windSpeed >= 0 the base drone frequency is
\* 150 + (min(windSpeed, 1000) - 300) * 0.1 Hz, lies within [95, 245] Hz,
\* is 220 Hz for every windSpeed >= 1000 and 195 Hz for windSpeed = 750.
C21_BaseFreqBounded ==
    (probe.done /\ probe.windSpeed >= 0) =>
        /\ 10 * probe.baseFreq =
              15000 + ((IF probe.windSpeed <= 1000 THEN probe.windSpeed ELSE 1000) - 300) * 10
        /\ 950 <= probe.baseFreq
        /\ probe.baseFreq <= 2450
        /\ probe.windSpeed >= 1000 => probe.baseFreq = 2200
        /\ probe.windSpeed = 750 => probe.baseFreq = 1950

\* the frequency was computed for a wind speed above the 1000 km/s cap
C21_Witness ==
    /\ probe.done
    /\ probe.windSpeed > 1000
    /\ probe.baseFreq = 2200

\* C22: out-of-range telemetry is clamped before graph construction: for
\* every windSpeed < 0 the base drone frequency is the one for windSpeed 0,
\* and for every windDensity < 0 the granular-layer gain is the one for
\* density 0, never negative.
C22_NegativeTelemetryClamped ==
    probe.done =>
        /\ probe.windSpeed < 0 => probe.baseFreq = BaseFreq(0)
        /\ probe.windDensity < 0 =>
              /\ probe.densityVol = DensityVol(0)
              /\ probe.densityVol >= 0

\* C24: for every windDensity d >= 0 the granular-layer gain is
\* min(d / 15, 1) * 0.15: within [0, 0.15], non-decreasing in d, 0.15 for
\* every d >= 15 and 0.12 for d = 12.
C24_DensityVolBounded ==
    (probe.done /\ probe.windDensity >= 0) =>
        /\ 150 * probe.densityVol =
              (IF probe.windDensity <= 150 THEN probe.windDensity ELSE 150) * 150
        /\ 0 <= probe.densityVol
        /\ probe.densityVol <= 150
        /\ probe.densityVol <= probe.densityVolNext
        /\ probe.windDensity >= 150 => probe.densityVol = 150
        /\ probe.windDensity = 120 => probe.densityVol = 120

\* the gain was computed for a density above 15, where it saturates
C24_Witness ==
    /\ probe.done
    /\ probe.windDensity > 150
    /\ probe.densityVol = 150

(* ---------------------- playSun's cutoff alone ------------------------ *)

RECURSIVE Pow10(_)
Pow10(e) == IF e = 0 THEN 1 ELSE 10 * Pow10(e - 1)

Fluxes == {m * Pow10(e) : m \in 0..MaxMantissa, e \in 0..MaxExponent}

\* the strings of at most MaxClassLen characters over some class letters
\* and a digit
ClassStrings ==
    UNION {[1..n -> {"A", "B", "C", "M", "X", "1"}] : n \in 0..MaxClassLen}

\* fetchSolarData: class: getFlareClass(item.flux)
FetchFlare ==
    /\ ~probe.fromFlux
    /\ probe' = [probe EXCEPT !.flareClass = GetFlareClass(probe.flux),
                              !.fromFlux = TRUE,
                              !.cutoff = 0,
                              !.done = FALSE]
    /\ UNCHANGED Controller

\* playSun(ctx, dest): the cutoff it computes from the flareClass prop
PlaySun ==
    /\ ~probe.done
    /\ probe' = [probe EXCEPT !.cutoff = Cutoff(probe.flareClass), !.done = TRUE]
    /\ UNCHANGED Controller

InitSun ==
    /\ probe \in [flux : Fluxes, flareClass : ClassStrings, fromFlux : {FALSE},
                  cutoff : {0}, done : {FALSE}]
    /\ Constructed

NextSun == FetchFlare \/ PlaySun

SpecSun == InitSun /\ [][NextSun]_vars

\* C23: the Sun lowpass cutoff depends on the flare class only: 3000 Hz if
\* the class contains X, otherwise 1200 Hz if it contains M, otherwise 500 Hz
\* if it contains C, otherwise 350 Hz; for a class string produced by
\* getFlareClass it is determined by the leading letter (A/B -> 350,
\* C -> 500, M -> 1200, X -> 3000).
C23_CutoffByFlareClass ==
    probe.done =>
        /\ probe.cutoff =
              (IF \E i \in DOMAIN probe.flareClass : probe.flareClass[i] = "X" THEN 3000
               ELSE IF \E i \in DOMAIN probe.flareClass : probe.flareClass[i] = "M" THEN 1200
               ELSE IF \E i \in DOMAIN probe.flareClass : probe.flareClass[i] = "C" THEN 500
               ELSE 350)
        /\ probe.fromFlux =>
              /\ probe.flareClass[1] \in {"A", "B", "C", "M", "X"}
              /\ probe.flareClass[1] \in {"A", "B"} => probe.cutoff = 350
              /\ probe.flareClass[1] = "C" => probe.cutoff = 500
              /\ probe.flareClass[1] = "M" => probe.cutoff = 1200
              /\ probe.flareClass[1] = "X" => probe.cutoff = 3000

\* the cutoff was computed for an X class that getFlareClass produced
C23_Witness ==
    /\ probe.done
    /\ probe.fromFlux
    /\ probe.flareClass = <<"X", "2", ".", "0">>
    /\ probe.cutoff = 3000

(* ------------------------ noise buffers alone ------------------------- *)

\* values of white = Math.random() * 2 - 1, in hundredths
WhiteLevels == {-100, -50, 0, 50, 99}

\* values of Math.random() in units of 1e-7, and in hundredths
ChanceDraws == {0, 5000, 99999, 9999999}
SampleDraws == {0, 50, 99}

\* the loop body of createPinkNoise for sample i: white takes the value
\* drawn for the even or for the odd samples
PinkSample ==
    /\ probe.i < MaxSamples
    /\ probe' = [probe EXCEPT
                     !.pink = PinkStep(probe.pink,
                                       IF probe.i % 2 = 0 THEN probe.even ELSE probe.odd),
                     !.i = probe.i + 1]
    /\ UNCHANGED Controller

\* the loop body of createGranularNoise for one sample
GranularSample ==
    /\ ~probe.grainDone
    /\ probe' = [probe EXCEPT
                     !.grain = GrainSample(probe.density, probe.chanceDraw, probe.sampleDraw),
                     !.grainDone = TRUE]
    /\ UNCHANGED Controller

InitNoise ==
    /\ probe \in [even : WhiteLevels, odd : WhiteLevels, i : {0}, pink : {PinkStart},
                  density : {0, 500, MaxDensity}, chanceDraw : ChanceDraws,
                  sampleDraw : SampleDraws, grain : {0}, grainDone : {FALSE}]
    /\ Constructed

NextNoise == PinkSample \/ GranularSample

SpecNoise == InitNoise /\ [][NextNoise]_vars

\* C28: every sample of a generated noise buffer lies in [-1, 1]: the
\* samples of the pink-noise generator for white inputs in [-1, 1], and the
\* samples of the granular generator for every density.
C28_SamplesInRange ==
    /\ probe.i > 0 => (-Unit <= probe.pink.out /\ probe.pink.out <= Unit)
    /\ probe.grainDone => (-Unit <= probe.grain /\ probe.grain <= Unit)

====
